---- MODULE Spec2Model ----
(***************************************************************************)
(* A model of the merge-tool analysis harness (src/script.py): the         *)
(* conflict-marker parser, the tool runner and its 10-trial benchmark      *)
(* loop, the comparison row built per scenario, and the scenario sampler.  *)
(* Text is modelled as sequences of one-character strings, so that         *)
(* startswith, strip, splitlines and join are computed character by        *)
(* character as Python computes them.                                       *)
(***************************************************************************)
EXTENDS Integers, Sequences, FiniteSets, TLC

VARIABLES
    parser,       \* one call of count_and_extract_conflicts, line by line
    inputs,       \* the dataset on disk and what the user types at the prompts
    sampler,      \* the runs of setup_experiment_environment, one after the other
    tools,        \* config['tools'], with what each binary can do when run
    ws,           \* the working set: the scenarios/ directory
    pc,           \* where main is
    si,           \* scenarios of the processing order already consumed
    ti,           \* index of the tool being benchmarked
    i,            \* trials of that tool already made (for i in range(10))
    valid_runs,   \* main's list of the successful trials' times
    times,        \* main's dict tool name -> timing, for this scenario
    viz,          \* the scenario's output directory: merge<ext> and <tool>/merge<ext>
    all_results,  \* analyze_scenario's dict source -> parsed result
    table,        \* results.csv: the rows written so far
    calls,        \* history: run_tool calls made for the tool being benchmarked
    succ_times,   \* history: times of its successful trials, in execution order
    last_trial,   \* a call of run_tool on its own: what its command did, its result
    last_success_out  \* history: tool name -> what its last successful trial wrote

pipeline == <<tools, ws, pc, si, ti, i, valid_runs, times, viz, all_results,
              table, calls, succ_times, last_trial, last_success_out>>

vars == <<parser, inputs, sampler, pipeline>>

\* ------------------------------------------------------------------------
\* Text helpers
\* ------------------------------------------------------------------------

Min(S) == CHOOSE x \in S : \A y \in S : x <= y

Max(S) == CHOOSE x \in S : \A y \in S : x >= y

\* A string of n copies of the character c.
Rep(c, n) == [k \in 1..n |-> c]

\* '<<<<<<<' (script.py line 55) and '>>>>>>>' (line 60).
OPEN_MARKER == Rep("<", 7)

CLOSE_MARKER == Rep(">", 7)

\* str.startswith
startswith(line, prefix) ==
    /\ Len(line) >= Len(prefix)
    /\ SubSeq(line, 1, Len(prefix)) = prefix

\* The whitespace characters of the model's alphabet.
Whitespace == {" ", "\n"}

\* str.strip(): drop leading and trailing whitespace.
strip(s) ==
    LET keep == {k \in 1..Len(s) : s[k] \notin Whitespace}
    IN  IF keep = {} THEN <<>> ELSE SubSeq(s, Min(keep), Max(keep))

\* str.splitlines(): cut at each line break; a final line break opens no
\* further (empty) line, and the empty text has no lines.
RECURSIVE splitlines(_)
splitlines(s) ==
    IF s = <<>> THEN <<>>
    ELSE LET brk == {k \in 1..Len(s) : s[k] = "\n"}
         IN  IF brk = {} THEN <<s>>
             ELSE <<SubSeq(s, 1, Min(brk) - 1)>>
                      \o splitlines(SubSeq(s, Min(brk) + 1, Len(s)))

\* '\n'.join(lines)
RECURSIVE join(_)
join(lines) ==
    IF lines = <<>> THEN <<>>
    ELSE IF Len(lines) = 1 THEN lines[1]
    ELSE lines[1] \o <<"\n">> \o join(Tail(lines))

\* ------------------------------------------------------------------------
\* Conflict parser: count_and_extract_conflicts
\* ------------------------------------------------------------------------

\* The locals of count_and_extract_conflicts before the first line.
ParserLocals ==
    [num_conflicts |-> 0, conflict_blocks |-> <<>>,
     current_block |-> <<>>, in_conflict |-> FALSE]

\* A faulty variant of ParseLine that emits a block at every closing marker,
\* whether or not a block is open.
ParseLineNoGuard(st, line) ==
    IF startswith(line, OPEN_MARKER)
    THEN [st EXCEPT !.num_conflicts = @ + 1, !.in_conflict = TRUE,
                    !.current_block = <<line>>]
    ELSE IF startswith(line, CLOSE_MARKER)
    THEN [st EXCEPT !.conflict_blocks =
                        Append(@, strip(join(Append(st.current_block, line)))),
                    !.in_conflict = FALSE, !.current_block = <<>>]
    ELSE IF st.in_conflict
    THEN [st EXCEPT !.current_block = Append(@, line)]
    ELSE st

\* A faulty variant of ParseLine that keeps the old buffer at a second opening
\* marker instead of restarting it.
ParseLineKeepBuffer(st, line) ==
    IF startswith(line, OPEN_MARKER)
    THEN [st EXCEPT !.num_conflicts = @ + 1, !.in_conflict = TRUE,
                    !.current_block = Append(@, line)]
    ELSE IF startswith(line, CLOSE_MARKER)
    THEN IF st.in_conflict
         THEN [st EXCEPT !.conflict_blocks =
                             Append(@, strip(join(Append(st.current_block, line)))),
                         !.in_conflict = FALSE, !.current_block = <<>>]
         ELSE st
    ELSE IF st.in_conflict
    THEN [st EXCEPT !.current_block = Append(@, line)]
    ELSE st

\* A faulty variant of ParseLine that counts a conflict when its block is emitted,
\* not when it is opened.
ParseLineCountAtClose(st, line) ==
    IF startswith(line, OPEN_MARKER)
    THEN [st EXCEPT !.in_conflict = TRUE, !.current_block = <<line>>]
    ELSE IF startswith(line, CLOSE_MARKER)
    THEN IF st.in_conflict
         THEN [st EXCEPT !.num_conflicts = @ + 1,
                         !.conflict_blocks =
                             Append(@, strip(join(Append(st.current_block, line)))),
                         !.in_conflict = FALSE, !.current_block = <<>>]
         ELSE st
    ELSE IF st.in_conflict
    THEN [st EXCEPT !.current_block = Append(@, line)]
    ELSE st

\* One pass of the loop body over one line (script.py lines 52-69).
ParseLine(st, line) ==
    IF startswith(line, OPEN_MARKER)
    THEN [st EXCEPT !.num_conflicts = @ + 1, !.in_conflict = TRUE,
                    !.current_block = <<line>>]
    ELSE IF startswith(line, CLOSE_MARKER)
    THEN IF st.in_conflict
         THEN [st EXCEPT !.conflict_blocks =
                             Append(@, strip(join(Append(st.current_block, line)))),
                         !.in_conflict = FALSE, !.current_block = <<>>]
         ELSE st
    ELSE IF st.in_conflict
    THEN [st EXCEPT !.current_block = Append(@, line)]
    ELSE st

\* The loop over the first n lines.
RECURSIVE ParseLines(_, _)
ParseLines(lines, n) ==
    IF n = 0 THEN ParserLocals
    ELSE ParseLine(ParseLines(lines, n - 1), lines[n])

\* What is found at a path: no file, or a file holding a text.
NoFile == [exists |-> FALSE, text |-> <<>>]

File(t) == [exists |-> TRUE, text |-> t]

\* count_and_extract_conflicts(file_path): file is what is found at the
\* path; for NoFile open raises FileNotFoundError, which is caught.
count_and_extract_conflicts(file) ==
    IF ~file.exists
    THEN [conflicts |-> 0, content |-> <<>>, conflict_blocks |-> <<>>]
    ELSE LET lines == splitlines(file.text)
             st == ParseLines(lines, Len(lines))
         IN  [conflicts |-> st.num_conflicts, content |-> strip(file.text),
              conflict_blocks |-> st.conflict_blocks]

\* The parser before it is called.
ParserIdle ==
    [pc |-> "idle", file |-> NoFile, lines |-> <<>>, k |-> 0,
     st |-> ParserLocals, result |-> count_and_extract_conflicts(NoFile)]

\* ------------------------------------------------------------------------
\* Input texts
\* ------------------------------------------------------------------------

\* The longest text, in lines, the parser is run on.
MaxLines == 4

\* The lines texts are built from: markers bare and labelled, a closing
\* marker with trailing blank, an indented opening marker (no marker: the
\* test is on the unstripped line), an ordinary line and an empty one.
LineSet ==
    { OPEN_MARKER,
      OPEN_MARKER \o <<" ", "x">>,
      CLOSE_MARKER,
      CLOSE_MARKER \o <<" ">>,
      <<" ">> \o OPEN_MARKER,
      <<"x">>,
      <<>> }

\* Every text of at most MaxLines lines, with or without a final line break.
Texts ==
    LET lists == UNION {[1..n -> LineSet] : n \in 0..MaxLines}
    IN  {join(l) : l \in lists} \cup {join(l) \o <<"\n">> : l \in lists}

\* ------------------------------------------------------------------------
\* Tool runner: run_tool
\* ------------------------------------------------------------------------

\* The names command_template.format is given (lines 97-104).
Placeholders ==
    {"binary_path", "base", "left", "right", "output_dir", "output_file"}

\* for i in range(10) (line 422).
NumTrials == 10

\* config.get('reference_name', 'actual') (line 348).
REF_NAME == "actual"

\* What one run of a tool's command can do: fail to launch (subprocess.run
\* raises), or exit with a return code having written the output file or
\* not (writes = NoFile: nothing written).
Outcome(launched, returncode, writes) ==
    [launched |-> launched, returncode |-> returncode, writes |-> writes]

\* A tool descriptor: its name, whether binary_path exists, the placeholder
\* names its command_template uses, and its environment: the outcomes its
\* command can have and the elapsed times a run can take, in units of
\* 0.0001 ms (run_tool rounds to 4 decimals, line 110).
Tool(name, binary, template, prog, ms) ==
    [name |-> name, binary |-> binary, template |-> template,
     prog |-> prog, ms |-> ms]

\* The result of a run_tool call: raised (str.format's KeyError leaves the
\* function), or the pair returned, with the output file left on disk.
Returned(execution_time, success, out) ==
    [raised |-> FALSE, execution_time |-> execution_time,
     success |-> success, out |-> out]

\* run_tool (lines 77-124) on a tool whose output path holds out_file, when
\* the command does o and takes ms.
run_tool(tool_config, out_file, o, ms) ==
    IF ~tool_config.binary
    THEN Returned(-1, FALSE, out_file)
    ELSE IF ~(tool_config.template \subseteq Placeholders)
    THEN [raised |-> TRUE, execution_time |-> -1, success |-> FALSE,
          out |-> out_file]
    ELSE IF ~o.launched
    THEN Returned(-1, FALSE, out_file)
    ELSE LET out == IF o.writes.exists THEN o.writes ELSE out_file
         IN  IF o.returncode \in {0, 1} /\ out.exists
             THEN Returned(ms, TRUE, out)
             ELSE Returned(-1, FALSE, out)

\* ------------------------------------------------------------------------
\* Benchmark protocol: the trial loop of main
\* ------------------------------------------------------------------------

RECURSIVE sum(_)
sum(seq) == IF seq = <<>> THEN 0 ELSE Head(seq) + sum(Tail(seq))

\* round(total / n, 4) in units of 0.0001: the nearest unit, a tie to the
\* even one.
round4(total, n) ==
    LET q == total \div n
        r == total % n
    IN  IF 2 * r < n THEN q
        ELSE IF 2 * r > n THEN q + 1
        ELSE IF q % 2 = 0 THEN q ELSE q + 1

\* A faulty variant of kept_runs that never drops the first successful time.
kept_runs_no_discard(runs) == runs

\* valid_runs after "if len(valid_runs)>1: valid_runs.pop(0)" (lines 429-430).
kept_runs(runs) == IF Len(runs) > 1 THEN Tail(runs) ELSE runs

\* times[tool_name] (lines 428-435).
timing(runs) ==
    IF runs /= <<>>
    THEN round4(sum(kept_runs(runs)), Len(kept_runs(runs)))
    ELSE -1

\* ------------------------------------------------------------------------
\* Comparison engine: analyze_scenario
\* ------------------------------------------------------------------------

tool_names(tools_config) ==
    [k \in 1..Len(tools_config) |-> tools_config[k].name]

\* all_sources = tool_names + [ref_name] (line 181).
sources(tools_config) == tool_names(tools_config) \o <<REF_NAME>>

\* The file analyze_scenario reads for a source: merge<ext> of the scenario
\* directory for the reference, <tool>/merge<ext> for a tool.
source_file(v, s) == IF s = REF_NAME THEN v.merge ELSE v.out[s]

\* all_results (lines 135-159).
parse_sources(tools_config, v) ==
    [s \in {sources(tools_config)[k] : k \in 1..Len(tools_config) + 1} |->
        LET r == count_and_extract_conflicts(source_file(v, s))
        IN  [conflicts |-> r.conflicts, content |-> r.content,
             conflict_blocks |-> r.conflict_blocks,
             valid |-> source_file(v, s).exists]]

\* itertools.combinations(all_sources, 2)
combinations2(seq) ==
    LET idx == {p \in (1..Len(seq)) \X (1..Len(seq)) : p[1] < p[2]}
    IN  {<<seq[p[1]], seq[p[2]]>> : p \in idx}

\* A faulty variant of reported_conflicts that reports the parser's count whether
\* or not the source is valid.
reported_conflicts_unguarded(data) == data.conflicts

\* 'number of <source> conflicts' (lines 168-178).
reported_conflicts(data) == IF data.valid THEN data.conflicts ELSE -1

\* A faulty variant of compare_pair that compares invalid sources too.
compare_pair_unguarded(data1, data2) ==
    [content_eq |-> data1.content = data2.content,
     conflicts_eq |-> data1.conflict_blocks = data2.conflict_blocks]

\* content_eq, conflicts_eq of one pair (lines 183-193).
compare_pair(data1, data2) ==
    IF data1.valid /\ data2.valid
    THEN [content_eq |-> data1.content = data2.content,
          conflicts_eq |-> data1.conflict_blocks = data2.conflict_blocks]
    ELSE [content_eq |-> FALSE, conflicts_eq |-> FALSE]

\* results_row (lines 161-202); execution_times.get(tool_name, -1).
analyze_scenario(project_name, commit_hash, original_filename, tools_config, results, execution_times) ==
    LET all_sources == sources(tools_config)
        names == {tools_config[k].name : k \in 1..Len(tools_config)}
    IN  [project |-> project_name,
         commit |-> commit_hash,
         file |-> original_filename,
         conflicts |-> [s \in DOMAIN results |-> reported_conflicts(results[s])],
         content_eq |-> [p \in combinations2(all_sources) |->
                            compare_pair(results[p[1]], results[p[2]]).content_eq],
         conflicts_eq |-> [p \in combinations2(all_sources) |->
                            compare_pair(results[p[1]], results[p[2]]).conflicts_eq],
         time |-> [t \in names |->
                      IF t \in DOMAIN execution_times
                      THEN execution_times[t] ELSE -1]]

\* ------------------------------------------------------------------------
\* The working set and the order main walks it in
\* ------------------------------------------------------------------------

\* A scenario directory: whether find_source_file resolves base, left and
\* right, the extension of the base file's name ("" when it has none), and
\* the child file.
Scenario(base, left, right, ext, child) ==
    [base |-> base, left |-> left, right |-> right, ext |-> ext,
     child |-> child]

\* sorted(...) of a set of names (names are numbers here, ordered as the
\* strings they stand for).
RECURSIVE sorted(_)
sorted(S) == IF S = {} THEN <<>> ELSE <<Min(S)>> \o sorted(S \ {Min(S)})

\* The (project, commit) directories in the order of main's two loops
\* (lines 358-371): sorted projects, within each its sorted commits.
RECURSIVE WalkProjects(_, _)
WalkProjects(scen, projects_list) ==
    IF projects_list = <<>> THEN <<>>
    ELSE LET p == Head(projects_list)
             commits_list == sorted({k[2] : k \in {x \in DOMAIN scen : x[1] = p}})
         IN  [c \in 1..Len(commits_list) |-> <<p, commits_list[c]>>]
                 \o WalkProjects(scen, Tail(projects_list))

ProcessingOrder(w) ==
    WalkProjects(w.scen, sorted({k[1] : k \in DOMAIN w.scen}))

\* ------------------------------------------------------------------------
\* Scenario sampler: setup_experiment_environment
\* ------------------------------------------------------------------------

\* The runs of the sampler that are compared.
Runs == {1, 2}

\* What the sampler reads: whether a dataset with a scenario folder was
\* chosen (lines 208-237), the scenario directories of the dataset, the
\* text typed at "Number: " (ok: it parses as an integer), at the seed
\* prompt (kind "int", "empty" or "bad") and at the confirmation.
Inputs(chosen, dataset, number, seed, confirm) ==
    [chosen |-> chosen, dataset |-> dataset, number |-> number,
     seed |-> seed, confirm |-> confirm]

NoInputs ==
    Inputs(FALSE, <<>>, [ok |-> FALSE, val |-> 0],
           [kind |-> "empty", val |-> 0], "n")

\* One run of the sampler before it starts.
SamplerStart ==
    [pc |-> "start", before |-> [scen |-> <<>>, keep |-> FALSE, junk |-> {}],
     all_available_scenarios |-> <<>>, num_to_run |-> 0, seeded |-> FALSE,
     experiment_seed |-> 0, selected_scenarios |-> <<>>, result |-> FALSE]

SamplerIdle == [r \in Runs |-> [SamplerStart EXCEPT !.pc = "idle"]]

\* The orders os.listdir can give: the projects in any order, and under
\* each project its commits in any order (lines 241-247).
Listings(dataset) ==
    LET names == DOMAIN dataset
        n == Cardinality(names)
    IN  {l \in [1..n -> names] :
            /\ \A a \in 1..n, b \in 1..n : l[a] = l[b] => a = b
            /\ \A a \in 1..n, b \in 1..n, c \in 1..n :
                   (a < b /\ b < c /\ l[a][1] = l[c][1]) => l[b][1] = l[a][1]}

\* The generator behind random: seeded with the seed, each draw moves it
\* on, and a draw below m is a function of its state alone.
RngSeed(seed) == seed % 16

RngNext(x) == (5 * x + 3) % 16

\* random.sample(population, k) for a short population: k times, draw an
\* index j below the number of elements left in the pool, take pool[j] and
\* move the pool's last element into its place.
RECURSIVE sample_pool(_, _, _, _)
sample_pool(pool, n, k, x) ==
    IF k = 0 THEN <<>>
    ELSE LET x2 == RngNext(x)
             j == (x2 % n) + 1
         IN  <<pool[j]>> \o sample_pool([pool EXCEPT ![j] = pool[n]], n - 1, k - 1, x2)

\* random.seed(experiment_seed) (line 287), then
\* random.sample(all_available_scenarios, num_to_run) (line 317).
random_sample(population, k, seed) ==
    sample_pool(population, Len(population), k, RngSeed(seed))

\* The values int(time.time()) can have at the seed prompt.
Clock == {6, 7}

\* A faulty variant of ask that goes on whatever is typed at the
\* confirmation.
ask_unconfirmed(run, inp, now) ==
    LET total_scenarios == Len(run.all_available_scenarios)
        num == IF inp.number.val > total_scenarios
               THEN total_scenarios ELSE inp.number.val
        seed == IF inp.seed.kind = "int" THEN inp.seed.val ELSE now
    IN  IF ~inp.number.ok
        THEN [run EXCEPT !.pc = "returned", !.result = FALSE]
        ELSE IF num < -1
        THEN [run EXCEPT !.pc = "returned", !.result = FALSE, !.num_to_run = num]
        ELSE IF num = -1
        THEN [run EXCEPT !.pc = "returned", !.result = TRUE, !.num_to_run = num]
        ELSE [run EXCEPT !.pc = "prepare", !.num_to_run = num, !.seeded = TRUE,
                         !.experiment_seed = seed]

\* Lines 256-297 on a run that has enumerated the dataset, at the time now:
\* the number is read, clamped and validated, the seed is read, the user
\* confirms; the run returns False, returns True (n = -1) or goes on to
\* prepare the working set.
ask(run, inp, now) ==
    LET total_scenarios == Len(run.all_available_scenarios)
        num == IF inp.number.val > total_scenarios
               THEN total_scenarios ELSE inp.number.val
        seed == IF inp.seed.kind = "int" THEN inp.seed.val ELSE now
    IN  IF ~inp.number.ok
        THEN [run EXCEPT !.pc = "returned", !.result = FALSE]
        ELSE IF num < -1
        THEN [run EXCEPT !.pc = "returned", !.result = FALSE, !.num_to_run = num]
        ELSE LET seeded == IF num /= -1
                           THEN [run EXCEPT !.num_to_run = num, !.seeded = TRUE,
                                            !.experiment_seed = seed]
                           ELSE [run EXCEPT !.num_to_run = num]
             IN  IF inp.confirm /= "y"
                 THEN [seeded EXCEPT !.pc = "returned", !.result = FALSE]
                 ELSE IF num = -1
                 THEN [seeded EXCEPT !.pc = "returned", !.result = TRUE]
                 ELSE [seeded EXCEPT !.pc = "prepare"]

\* A faulty variant of cleaned that deletes nothing.
cleaned_nothing(w) == w

\* The working set after the cleaning (lines 302-314): .gitkeep is passed
\* over, a file or a symbolic link is unlinked, a directory (a project
\* directory with its scenarios, or a stray one) is removed with its tree.
cleaned(w) ==
    [scen |-> <<>>,
     keep |-> w.keep,
     junk |-> {k \in w.junk : ~(k \in {"file", "link"}) /\ ~(k = "dir")}]

\* The working set after copytree of the selected scenarios (lines 321-324).
copied(w, dataset, selected) ==
    [w EXCEPT !.scen =
        [name \in DOMAIN w.scen \cup {selected[k] : k \in 1..Len(selected)} |->
            IF name \in {selected[k] : k \in 1..Len(selected)}
            THEN dataset[name] ELSE w.scen[name]]]

\* The sampler run whose turn it is: the second starts when the first is over.
Turn(r) == \A q \in Runs : q < r => sampler[q].pc \in {"stopped", "running"}

\* No dataset with a scenario folder was chosen: return False
\* (lines 208-237).
SamplerNoDataset(r) ==
    /\ Turn(r)
    /\ sampler[r].pc = "start"
    /\ ~inputs.chosen
    /\ sampler' = [sampler EXCEPT ![r] = [@ EXCEPT !.pc = "returned",
                                                   !.result = FALSE,
                                                   !.before = ws]]
    /\ UNCHANGED <<parser, inputs, pipeline>>

\* The dataset is enumerated in the order the directory listings give
\* (lines 239-250).
SamplerEnumerate(r) ==
    /\ Turn(r)
    /\ sampler[r].pc = "start"
    /\ inputs.chosen
    /\ \E l \in Listings(inputs.dataset) :
          sampler' = [sampler EXCEPT ![r] = [@ EXCEPT !.pc = "ask",
                                                      !.before = ws,
                                                      !.all_available_scenarios = l]]
    /\ UNCHANGED <<parser, inputs, pipeline>>

\* The prompts (lines 252-297).
SamplerAsk(r) ==
    /\ sampler[r].pc = "ask"
    /\ \E now \in Clock :
          sampler' = [sampler EXCEPT ![r] = ask(@, inputs, now)]
    /\ UNCHANGED <<parser, inputs, pipeline>>

\* The working set is cleaned, the scenarios are drawn and copied, return
\* True (lines 300-327).
SamplerPrepare(r) ==
    /\ sampler[r].pc = "prepare"
    /\ LET selected == random_sample(sampler[r].all_available_scenarios,
                                     sampler[r].num_to_run,
                                     sampler[r].experiment_seed)
       IN  /\ sampler' = [sampler EXCEPT ![r] =
                             [@ EXCEPT !.pc = "returned", !.result = TRUE,
                                       !.selected_scenarios = selected]]
           /\ ws' = copied(cleaned(ws), inputs.dataset, selected)
    /\ UNCHANGED <<parser, inputs, tools, pc, si, ti, i, valid_runs, times, viz,
                   all_results, table, calls, succ_times,
                   last_trial, last_success_out>>

\* main (lines 330-332): "Stopping script." when the sampler returned
\* False, otherwise the run goes on.
MainAfterSetup(r) ==
    /\ sampler[r].pc = "returned"
    /\ sampler' = [sampler EXCEPT ![r].pc =
                      IF sampler[r].result THEN "running" ELSE "stopped"]
    /\ UNCHANGED <<parser, inputs, pipeline>>

NextSampler ==
    \E r \in Runs :
        \/ SamplerNoDataset(r)
        \/ SamplerEnumerate(r)
        \/ SamplerAsk(r)
        \/ SamplerPrepare(r)
        \/ MainAfterSetup(r)

\* ------------------------------------------------------------------------
\* main, from the scenario loop on
\* ------------------------------------------------------------------------

\* The scenario's output directory before anything is copied into it.
EmptyViz(tools_config) ==
    [merge |-> NoFile,
     out |-> [n \in {tools_config[k].name : k \in 1..Len(tools_config)} |-> NoFile]]

\* A call of run_tool as it went: the tool descriptor, the file at the
\* tool's output path before the call, what the command did and took (had
\* it been launched), and what run_tool gave back.
Trial(tool_config, out_before, o, ms, result) ==
    [made |-> TRUE, tool |-> tool_config, out_before |-> out_before,
     o |-> o, ms |-> ms, result |-> result]

\* No call of run_tool was made yet.
NoTrial ==
    [made |-> FALSE, tool |-> Tool("", FALSE, {}, {}, {}), out_before |-> NoFile,
     o |-> Outcome(FALSE, 0, NoFile), ms |-> 0,
     result |-> Returned(-1, FALSE, NoFile)]

\* Nothing of main's scenario loop has run.
MainIdle ==
    /\ tools = <<>>
    /\ pc = "idle"
    /\ si = 0
    /\ ti = 0
    /\ i = 0
    /\ valid_runs = <<>>
    /\ times = <<>>
    /\ viz = EmptyViz(<<>>)
    /\ all_results = <<>>
    /\ table = <<>>
    /\ calls = 0
    /\ succ_times = <<>>
    /\ last_success_out = <<>>

PipelineIdle ==
    /\ MainIdle
    /\ ws = [scen |-> <<>>, keep |-> FALSE, junk |-> {}]

\* main after setup_experiment_environment returned True and the
\* configuration was loaded: at the head of the scenario loop.
InitPipeline(ToolLists, WorkingSets) ==
    /\ parser = ParserIdle
    /\ inputs = NoInputs
    /\ sampler = SamplerIdle
    /\ tools \in ToolLists
    /\ ws \in WorkingSets
    /\ pc = "scenario"
    /\ si = 0
    /\ ti = 0
    /\ i = 0
    /\ valid_runs = <<>>
    /\ times = <<>>
    /\ viz = EmptyViz(tools)
    /\ all_results = <<>>
    /\ table = <<>>
    /\ calls = 0
    /\ succ_times = <<>>
    /\ last_trial = NoTrial
    /\ last_success_out = <<>>

\* The scenario the loop is at.
CurrentKey == ProcessingOrder(ws)[si + 1]

CurrentScenario == ws.scen[CurrentKey]

\* base, left or right does not resolve: "ERROR: ... missing", continue
\* (lines 385-391).
SkipScenario ==
    /\ pc = "scenario"
    /\ si < Len(ProcessingOrder(ws))
    /\ ~(CurrentScenario.base /\ CurrentScenario.left /\ CurrentScenario.right)
    /\ si' = si + 1
    /\ UNCHANGED <<parser, inputs, sampler, tools, ws, pc, ti, i, valid_runs, times, viz,
                   all_results, table, calls, succ_times,
                   last_trial, last_success_out>>

\* The inputs resolve: the scenario directory is made, base, left, right and
\* (when there is one) the child file are copied into it, times = {}
\* (lines 393-415).
StartScenario ==
    /\ pc = "scenario"
    /\ si < Len(ProcessingOrder(ws))
    /\ CurrentScenario.base /\ CurrentScenario.left /\ CurrentScenario.right
    /\ viz' = [EmptyViz(tools) EXCEPT !.merge = CurrentScenario.child]
    /\ times' = <<>>
    /\ ti' = 1
    /\ pc' = "tool"
    /\ last_success_out' = <<>>
    /\ UNCHANGED <<parser, inputs, sampler, tools, ws, si, i, valid_runs, all_results, table,
                   calls, succ_times, last_trial>>

\* for tool in tools_config: valid_runs = [] (lines 418-420).
StartTool ==
    /\ pc = "tool"
    /\ ti <= Len(tools)
    /\ valid_runs' = <<>>
    /\ i' = 0
    /\ calls' = 0
    /\ succ_times' = <<>>
    /\ pc' = "trial"
    /\ UNCHANGED <<parser, inputs, sampler, tools, ws, si, ti, times, viz, all_results, table,
                   last_trial, last_success_out>>

\* One trial: run_tool returns, a successful time is appended (lines 422-426).
RunTool ==
    /\ pc = "trial"
    /\ i < NumTrials
    /\ \E o \in tools[ti].prog, ms \in tools[ti].ms :
          LET r == run_tool(tools[ti], viz.out[tools[ti].name], o, ms)
          IN  /\ ~r.raised
              /\ viz' = [viz EXCEPT !.out[tools[ti].name] = r.out]
              /\ valid_runs' = IF r.success
                               THEN Append(valid_runs, r.execution_time)
                               ELSE valid_runs
              /\ succ_times' = IF r.success
                               THEN Append(succ_times, r.execution_time)
                               ELSE succ_times
              /\ last_success_out' =
                     IF r.success
                     THEN [t \in DOMAIN last_success_out \cup {tools[ti].name} |->
                              IF t = tools[ti].name THEN o.writes
                              ELSE last_success_out[t]]
                     ELSE last_success_out
    /\ i' = i + 1
    /\ calls' = calls + 1
    /\ UNCHANGED <<parser, inputs, sampler, tools, ws, pc, si, ti, times, all_results, table,
                   last_trial>>

\* One trial: run_tool raises; nothing in main catches it, the run ends
\* with the traceback.
RunToolRaises ==
    /\ pc = "trial"
    /\ i < NumTrials
    /\ \E o \in tools[ti].prog, ms \in tools[ti].ms :
          run_tool(tools[ti], viz.out[tools[ti].name], o, ms).raised
    /\ calls' = calls + 1
    /\ pc' = "crashed"
    /\ UNCHANGED <<parser, inputs, sampler, tools, ws, si, ti, i, valid_runs, times, viz,
                   all_results, table, succ_times, last_trial, last_success_out>>

\* The trials are over: times[tool_name] is set (lines 428-436).
FinishTool ==
    /\ pc = "trial"
    /\ i = NumTrials
    /\ times' = [t \in DOMAIN times \cup {tools[ti].name} |->
                    IF t = tools[ti].name THEN timing(valid_runs) ELSE times[t]]
    /\ valid_runs' = IF valid_runs /= <<>> THEN kept_runs(valid_runs) ELSE valid_runs
    /\ ti' = ti + 1
    /\ pc' = "tool"
    /\ UNCHANGED <<parser, inputs, sampler, tools, ws, si, i, viz, all_results, table, calls,
                   succ_times,
                   last_trial, last_success_out>>

\* The tools are over: with a non-empty extension the row is built and
\* appended to the table, otherwise "SKIP: INPUT FILES NOT FOUND"
\* (lines 439-462).
Analyze ==
    /\ pc = "tool"
    /\ ti > Len(tools)
    /\ IF CurrentScenario.ext /= ""
       THEN /\ all_results' = parse_sources(tools, viz)
            /\ table' = Append(table,
                   analyze_scenario(CurrentKey[1], CurrentKey[2],
                                    CurrentScenario.ext, tools,
                                    parse_sources(tools, viz), times))
       ELSE UNCHANGED <<all_results, table>>
    /\ si' = si + 1
    /\ pc' = "scenario"
    /\ UNCHANGED <<parser, inputs, sampler, tools, ws, ti, i, valid_runs, times, viz, calls,
                   succ_times,
                   last_trial, last_success_out>>

\* The loops are over: "FINISHED EXECUTION" (line 464).
Finish ==
    /\ pc = "scenario"
    /\ si = Len(ProcessingOrder(ws))
    /\ pc' = "done"
    /\ UNCHANGED <<parser, inputs, sampler, tools, ws, si, ti, i, valid_runs, times, viz,
                   all_results, table, calls, succ_times,
                   last_trial, last_success_out>>

Next ==
    \/ SkipScenario
    \/ StartScenario
    \/ StartTool
    \/ RunTool
    \/ RunToolRaises
    \/ FinishTool
    \/ Analyze
    \/ Finish

\* ------------------------------------------------------------------------
\* Configurations and working sets the run is started on
\* ------------------------------------------------------------------------

\* A template using only names format is given, and one using another name.
GoodTemplate == {"binary_path", "base", "left", "right", "output_file"}

BadTemplate == {"binary_path", "base", "left", "right", "out"}

\* Output texts: plain; one conflict; the same conflict with a blank after
\* the closing marker and a final line break; the same conflict after a
\* plain line; an unterminated conflict; the empty text; the conflict with
\* its opening marker indented (no marker for the parser, though the
\* trimmed content equals that of the unindented text).
TextPlain == <<"x">>

TextConflict == join(<<OPEN_MARKER, <<"x">>, CLOSE_MARKER>>)

TextConflictBlank ==
    join(<<OPEN_MARKER, <<"x">>, CLOSE_MARKER \o <<" ">>>>) \o <<"\n">>

TextLineConflict == join(<<<<"x">>, OPEN_MARKER, <<"x">>, CLOSE_MARKER>>)

TextUnterminated == join(<<OPEN_MARKER, <<"x">>>>)

TextEmpty == <<>>

TextIndented == join(<<<<" ">> \o OPEN_MARKER, <<"x">>, CLOSE_MARKER>>)

FileTexts ==
    {TextPlain, TextConflict, TextConflictBlank, TextLineConflict,
     TextUnterminated, TextEmpty, TextIndented}

\* A command that may do anything: fail to launch, or exit 0, 1 or 2
\* having written one of the texts or nothing.
FlakyProg(texts) ==
    {Outcome(FALSE, 0, NoFile)} \cup
    {Outcome(TRUE, rc, w) : rc \in {0, 1, 2},
                            w \in {NoFile} \cup {File(t) : t \in texts}}

\* A command that writes the text and exits 0, or exits 2 writing nothing.
UnsteadyProg(text) == {Outcome(TRUE, 0, File(text)), Outcome(TRUE, 2, NoFile)}

\* A command that always writes the text and exits 1 (merged with conflicts).
WriterProg(text) == {Outcome(TRUE, 1, File(text))}

\* A command that always exits 2 writing nothing.
FailingProg == {Outcome(TRUE, 2, NoFile)}

\* A tool whose template names a placeholder format is not given, and a
\* tool whose binary is missing.
BadTemplateTool(name, binary) ==
    Tool(name, binary, BadTemplate, WriterProg(TextPlain), {3})

NoBinaryTool(name) == Tool(name, FALSE, GoodTemplate, WriterProg(TextPlain), {3})

\* Scenario directories: complete, without a child file, with a base file
\* whose name has no extension, and with no file under left/.
CompleteScenario(child) == Scenario(TRUE, TRUE, TRUE, ".java", child)

NoExtScenario == Scenario(TRUE, TRUE, TRUE, "", File(TextPlain))

NoLeftScenario == Scenario(TRUE, FALSE, TRUE, ".java", File(TextPlain))

\* A working set holding the given scenario directories.
WorkingSet(scen) == [scen |-> scen, keep |-> TRUE, junk |-> {}]

\* One complete scenario, alone or after one that does not resolve.
OneScenario(children) ==
    {WorkingSet(<<1, 2>> :> CompleteScenario(c)) : c \in children} \cup
    {WorkingSet(<<1, 1>> :> NoLeftScenario @@ <<1, 2>> :> CompleteScenario(c)) :
        c \in children}

\* Benchmark runs: one tool whose every trial may do anything and take 2 or
\* 5 units, alone or before a tool with a bad template.
BenchTools ==
    LET t1 == Tool("t1", TRUE, GoodTemplate,
                   FlakyProg({TextPlain, TextConflict}), {2, 5})
    IN  {<<t1>>, <<t1, BadTemplateTool("t2", TRUE)>>}

InitBench == InitPipeline(BenchTools, OneScenario({File(TextPlain)}))

SpecBench == InitBench /\ [][Next]_vars

\* Comparison runs: two tools, each always writing one of the texts or
\* always failing, or the second with a bad template, on one scenario whose
\* child file holds one of the texts or is absent.
CompareTools ==
    LET progs == {WriterProg(t) : t \in FileTexts} \cup {FailingProg}
    IN  {<<Tool("t1", TRUE, GoodTemplate, p1, {3}),
           Tool("t2", TRUE, GoodTemplate, p2, {3})>> : p1 \in progs, p2 \in progs}
        \cup {<<Tool("t1", TRUE, GoodTemplate, FailingProg, {3}),
                BadTemplateTool("t2", TRUE)>>}

InitCompare ==
    InitPipeline(CompareTools,
                 OneScenario({NoFile} \cup {File(t) : t \in FileTexts}))

SpecCompare == InitCompare /\ [][Next]_vars

\* Whole runs: at most MaxScenarios scenario directories, of every kind,
\* under the names below; two tools, each unsteady, without binary, or with
\* a bad template (with and without binary).
MaxScenarios == 2

ScenarioNames == {<<1, 1>>, <<1, 2>>, <<2, 1>>}

ScenarioKinds ==
    {CompleteScenario(File(TextConflict)), CompleteScenario(NoFile),
     NoExtScenario, NoLeftScenario}

RunWorkingSets ==
    {WorkingSet(scen) :
        scen \in UNION {[D -> ScenarioKinds] :
                           D \in {X \in SUBSET ScenarioNames :
                                      Cardinality(X) <= MaxScenarios}}}

RunTools ==
    LET kinds(n) == {Tool(n, TRUE, GoodTemplate, UnsteadyProg(TextConflict), {3}),
                     NoBinaryTool(n),
                     BadTemplateTool(n, TRUE),
                     BadTemplateTool(n, FALSE)}
    IN  {<<a, b>> : a \in kinds("t1"), b \in kinds("t2")}

Init == InitPipeline(RunTools, RunWorkingSets)

Spec == Init /\ [][Next]_vars

\* Sampler runs: a dataset of some of the scenario names, a working set
\* that is empty, or holds a scenario and stray entries (a file, a symbolic
\* link, a directory without scenarios), with or without .gitkeep; a number typed between -2 and MaxAsk or no number, a seed below
\* NumSeeds, none or no number, and the confirmation.
MaxAsk == 4

NumSeeds == 2

SamplerWorkingSets ==
    {[scen |-> <<>>, keep |-> TRUE, junk |-> {}],
     [scen |-> <<2, 1>> :> NoExtScenario, keep |-> TRUE,
      junk |-> {"file", "link", "dir"}],
     [scen |-> <<1, 1>> :> NoLeftScenario, keep |-> FALSE, junk |-> {"file"}]}

InitSampler ==
    /\ parser = ParserIdle
    /\ MainIdle
    /\ last_trial = NoTrial
    /\ ws \in SamplerWorkingSets
    /\ sampler = [r \in Runs |-> SamplerStart]
    /\ \E chosen \in BOOLEAN,
          D \in SUBSET ScenarioNames,
          number \in {[ok |-> FALSE, val |-> 0]}
                         \cup {[ok |-> TRUE, val |-> v] : v \in (-2)..MaxAsk},
          seed \in {[kind |-> "empty", val |-> 0], [kind |-> "bad", val |-> 0]}
                       \cup {[kind |-> "int", val |-> v] : v \in 0..(NumSeeds - 1)},
          confirm \in {"y", "n"} :
          inputs = Inputs(chosen, [name \in D |-> CompleteScenario(File(TextPlain))],
                          number, seed, confirm)

SpecSampler == InitSampler /\ [][NextSampler]_vars

\* ------------------------------------------------------------------------
\* run_tool called on its own
\* ------------------------------------------------------------------------

\* Tool descriptors: the binary there or not, the template good or bad; the
\* command may do anything and take 2 or 5 units.
RunToolTools ==
    {Tool("t1", binary, template,
          FlakyProg({TextPlain, TextConflict, TextEmpty}), {2, 5}) :
        binary \in BOOLEAN, template \in {GoodTemplate, BadTemplate}}

InitRunTool ==
    /\ parser = ParserIdle
    /\ inputs = NoInputs
    /\ sampler = SamplerIdle
    /\ PipelineIdle
    /\ last_trial \in {[NoTrial EXCEPT !.tool = t] : t \in RunToolTools}

\* One call of run_tool with the descriptor, at the output path as the
\* call before left it (nothing cleans it between calls); after a call
\* that raised there is no other.
CallRunTool ==
    /\ ~last_trial.result.raised
    /\ \E o \in last_trial.tool.prog, ms \in last_trial.tool.ms :
          LET out_before == last_trial.result.out
          IN  last_trial' = Trial(last_trial.tool, out_before, o, ms,
                                  run_tool(last_trial.tool, out_before, o, ms))
    /\ UNCHANGED <<parser, inputs, sampler, tools, ws, pc, si, ti, i, valid_runs, times,
                   viz, all_results, table, calls, succ_times, last_success_out>>

SpecRunTool == InitRunTool /\ [][CallRunTool]_vars

\* ------------------------------------------------------------------------
\* The parser run line by line
\* ------------------------------------------------------------------------

\* A call of count_and_extract_conflicts on a path with no file or with a
\* file holding one of the texts.
InitParser ==
    \E f \in {NoFile} \cup {File(t) : t \in Texts} :
        /\ parser = [ParserIdle EXCEPT !.pc = "open", !.file = f]
        /\ inputs = NoInputs
        /\ sampler = SamplerIdle
        /\ PipelineIdle
        /\ last_trial = NoTrial

\* open and read (lines 48-50): a missing file returns 0, "", [] from the
\* except clause (lines 73-75); otherwise the loop starts on the lines.
ParserOpen ==
    /\ parser.pc = "open"
    /\ parser' = IF parser.file.exists
                 THEN [parser EXCEPT !.pc = "loop",
                                     !.lines = splitlines(parser.file.text)]
                 ELSE [parser EXCEPT !.pc = "returned"]
    /\ UNCHANGED <<inputs, sampler, pipeline>>

\* The loop reads the next line.
ParserStep ==
    /\ parser.pc = "loop"
    /\ parser.k < Len(parser.lines)
    /\ parser' = [parser EXCEPT !.k = @ + 1,
                                !.st = ParseLine(@, parser.lines[parser.k + 1])]
    /\ UNCHANGED <<inputs, sampler, pipeline>>

\* The loop is over: return num_conflicts, content.strip(), conflict_blocks
\* (line 71).
ParserReturn ==
    /\ parser.pc = "loop"
    /\ parser.k = Len(parser.lines)
    /\ parser' = [parser EXCEPT
                     !.pc = "returned",
                     !.result = [conflicts |-> parser.st.num_conflicts,
                                 content |-> strip(parser.file.text),
                                 conflict_blocks |-> parser.st.conflict_blocks]]
    /\ UNCHANGED <<inputs, sampler, pipeline>>

NextParser == ParserOpen \/ ParserStep \/ ParserReturn

SpecParser == InitParser /\ [][NextParser]_vars

\* ------------------------------------------------------------------------
\* Claims about the parser
\* ------------------------------------------------------------------------

IsOpenLine(l) == Len(l) >= 7 /\ \A c \in 1..7 : l[c] = "<"

IsCloseLine(l) == Len(l) >= 7 /\ \A c \in 1..7 : l[c] = ">"

IsMarkerLine(l) == IsOpenLine(l) \/ IsCloseLine(l)

\* The opening-marker lines among the first n lines.
OpensUpTo(lines, n) == {a \in 1..n : IsOpenLine(lines[a])}

\* The last marker line before line b (0: there is none).
LastMarkerBefore(lines, b) ==
    LET ms == {m \in 1..(b - 1) : IsMarkerLine(lines[m])}
    IN  IF ms = {} THEN 0 ELSE Max(ms)

\* A block is open when line b is read: the last marker before b opens one.
OpenWhenRead(lines, b) ==
    LET m == LastMarkerBefore(lines, b)
    IN  m > 0 /\ IsOpenLine(lines[m])

\* The closing-marker lines among the first n read while a block is open.
ClosesUpTo(lines, n) ==
    {b \in 1..n : IsCloseLine(lines[b]) /\ OpenWhenRead(lines, b)}

\* The j-th smallest element of a set of numbers.
Nth(S, j) == CHOOSE x \in S : Cardinality({y \in S : y <= x}) = j

\* out is s without its leading and trailing whitespace.
IsTrimOf(out, s) ==
    \E a \in 0..Len(s) :
        /\ a + Len(out) <= Len(s)
        /\ \A c \in 1..a : s[c] \in Whitespace
        /\ \A c \in (a + Len(out) + 1)..Len(s) : s[c] \in Whitespace
        /\ \A c \in 1..Len(out) : out[c] = s[a + c]
        /\ out /= <<>> => out[1] \notin Whitespace /\ out[Len(out)] \notin Whitespace

\* The text of lines a..b, one per line.
RegionText(lines, a, b) == join(SubSeq(lines, a, b))

\* Every opening marker is followed by a closing marker before the next
\* opening marker and before the end of the text.
Balanced(lines) ==
    \A a \in OpensUpTo(lines, Len(lines)) :
        \E b \in (a + 1)..Len(lines) :
            /\ IsCloseLine(lines[b])
            /\ \A c \in (a + 1)..(b - 1) : ~IsOpenLine(lines[c])

\* C3: on a text whose opening markers are all closed (k balanced regions,
\* k >= 0), parse returns count = k and k blocks; the i-th block is the
\* text of the lines from the i-th opening marker through the closing
\* marker that ends it, trimmed, so no line outside a region is in a block;
\* and content is the whole text trimmed.
C3_BalancedParse ==
    (parser.pc = "returned" /\ parser.file.exists /\ Balanced(parser.lines)) =>
        LET lines == parser.lines
            opens == OpensUpTo(lines, Len(lines))
            k == Cardinality(opens)
            r == parser.result
        IN  /\ r.conflicts = k
            /\ Len(r.conflict_blocks) = k
            /\ \A j \in 1..k :
                   LET a == Nth(opens, j)
                       b == Min({c \in (a + 1)..Len(lines) : IsCloseLine(lines[c])})
                   IN  IsTrimOf(r.conflict_blocks[j], RegionText(lines, a, b))
            /\ IsTrimOf(r.content, parser.file.text)

\* C3's case: a text with two balanced regions has been parsed.
C3_Witness ==
    /\ parser.pc = "returned"
    /\ Balanced(parser.lines)
    /\ Cardinality(OpensUpTo(parser.lines, Len(parser.lines))) = 2
    /\ Len(parser.result.conflict_blocks) = 2

\* C4: after every line read, count is the number of opening-marker lines
\* read so far; blocks has one entry for each closing-marker line read while
\* a block was open, and that entry starts at the most recent opening marker
\* before it (an abandoned buffer is never emitted); the open flag and the
\* buffer depend only on the lines since the last marker, so a closing
\* marker read while no block is open changes nothing; count >= len(blocks).
C4_UnbalancedParse ==
    parser.pc \in {"loop", "returned"} =>
        LET lines == parser.lines
            n == parser.k
            st == parser.st
            closes == ClosesUpTo(lines, n)
            last == LastMarkerBefore(lines, n + 1)
        IN  /\ st.num_conflicts = Cardinality(OpensUpTo(lines, n))
            /\ Len(st.conflict_blocks) = Cardinality(closes)
            /\ \A j \in 1..Cardinality(closes) :
                   LET b == Nth(closes, j)
                   IN  IsTrimOf(st.conflict_blocks[j],
                                RegionText(lines, LastMarkerBefore(lines, b), b))
            /\ st.in_conflict = (last > 0 /\ IsOpenLine(lines[last]))
            /\ st.current_block =
                   (IF last > 0 /\ IsOpenLine(lines[last])
                    THEN SubSeq(lines, last, n) ELSE <<>>)
            /\ st.num_conflicts >= Len(st.conflict_blocks)
            /\ parser.pc = "returned" =>
                   /\ parser.result.conflicts = st.num_conflicts
                   /\ parser.result.conflict_blocks = st.conflict_blocks

\* C4's case: an opening marker, a line, a second opening marker and a
\* closing marker have been read: two counted, one block, from the second.
C4_Witness ==
    /\ parser.pc = "loop"
    /\ parser.k = 4
    /\ IsOpenLine(parser.lines[1])
    /\ ~IsMarkerLine(parser.lines[2])
    /\ IsOpenLine(parser.lines[3])
    /\ IsCloseLine(parser.lines[4])
    /\ parser.st.num_conflicts = 2
    /\ Len(parser.st.conflict_blocks) = 1

\* ------------------------------------------------------------------------
\* Claims about the benchmark protocol
\* ------------------------------------------------------------------------

\* The benchmark of tool ti - 1 has ended and its timing is in times.
Benchmarked ==
    /\ pc \in {"tool", "scenario", "done"}
    /\ ti > 1
    /\ tools[ti - 1].name \in DOMAIN times

\* t is total / n rounded to the nearest unit.
IsRoundedMean(t, total, n) ==
    /\ 2 * (t * n - total) <= n
    /\ 2 * (total - t * n) <= n

\* C1: with [t0, t1, ..., tn] the times of a tool's successful trials in
\* execution order, the recorded timing is the mean of t1..tn (rounded to
\* the 4th decimal, the unit) when there are two or more, and t0 itself
\* when there is exactly one.
C1_WarmupDiscard ==
    Benchmarked =>
        LET t == times[tools[ti - 1].name]
            n == Len(succ_times)
        IN  /\ n >= 2 =>
                IsRoundedMean(t, sum([k \in 1..(n - 1) |-> succ_times[k + 1]]), n - 1)
            /\ n = 1 => t = succ_times[1]

\* C1's case: three trials of ten succeeded, the first of them slower than
\* the other two, and the recorded timing is that of the other two.
C1_Witness ==
    /\ Benchmarked
    /\ calls = NumTrials
    /\ succ_times = <<5, 2, 2>>
    /\ times[tools[ti - 1].name] = 2

\* C2: every tool run on a scenario gets exactly 10 calls of the tool
\* runner, never more, and never fewer once its benchmark is over (by a
\* recorded timing or by the run ending); and a tool whose trials all
\* failed has the timing -1.
C2_TenTrials ==
    /\ calls <= NumTrials
    /\ pc = "crashed" => calls = NumTrials
    /\ Benchmarked =>
          /\ calls = NumTrials
          /\ succ_times = <<>> => times[tools[ti - 1].name] = -1

\* ------------------------------------------------------------------------
\* Claims about the comparison engine
\* ------------------------------------------------------------------------

\* The row of the scenario just analysed is the last of the table, and viz
\* still holds the files it was built from.
RowWritten ==
    /\ pc \in {"scenario", "done"}
    /\ si > 0
    /\ table /= <<>>
    /\ <<table[Len(table)].project, table[Len(table)].commit>>
           = ProcessingOrder(ws)[si]

LastRow == table[Len(table)]

SourceSet == {sources(tools)[k] : k \in 1..Len(tools) + 1}

\* The file of a source exists in the scenario's output directory.
ValidSource(s) == source_file(viz, s).exists

\* The text of a source's file without leading and trailing whitespace.
Normalized(s) ==
    LET t == source_file(viz, s).text
    IN  CHOOSE out \in {SubSeq(t, a, b) : a \in 1..(Len(t) + 1), b \in 0..Len(t)} :
            IsTrimOf(out, t)

\* Two block lists are equal element by element.
SameBlocks(x, y) == Len(x) = Len(y) /\ \A k \in 1..Len(x) : x[k] = y[k]

\* C5: the row has one pair of booleans for every unordered pair of
\* distinct sources; content-equal is true iff both sources are valid and
\* their normalized contents are equal, conflicts-equal iff both are valid
\* and their block lists are equal element by element; so both are false
\* when either source is invalid.
C5_PairSemantics ==
    RowWritten =>
        \A a \in SourceSet, b \in SourceSet :
            a /= b =>
                /\ (<<a, b>> \in DOMAIN LastRow.content_eq)
                       /= (<<b, a>> \in DOMAIN LastRow.content_eq)
                /\ DOMAIN LastRow.conflicts_eq = DOMAIN LastRow.content_eq
                /\ <<a, b>> \in DOMAIN LastRow.content_eq =>
                      /\ LastRow.content_eq[<<a, b>>] =
                            (/\ ValidSource(a)
                             /\ ValidSource(b)
                             /\ Normalized(a) = Normalized(b))
                      /\ LastRow.conflicts_eq[<<a, b>>] =
                            (/\ ValidSource(a)
                             /\ ValidSource(b)
                             /\ SameBlocks(all_results[a].conflict_blocks,
                                           all_results[b].conflict_blocks))

\* C5's case: tool t1 left no file, the reference file is empty: both have
\* empty content and no blocks, and the row says they differ; tool t2 and
\* the reference are valid and equal.
C5_Witness ==
    /\ RowWritten
    /\ ~ValidSource("t1")
    /\ ValidSource(REF_NAME)
    /\ ValidSource("t2")
    /\ all_results["t1"].content = all_results[REF_NAME].content
    /\ all_results["t1"].conflict_blocks = all_results[REF_NAME].conflict_blocks
    /\ ~LastRow.content_eq[<<"t1", REF_NAME>>]
    /\ ~LastRow.conflicts_eq[<<"t1", REF_NAME>>]
    /\ LastRow.content_eq[<<"t2", REF_NAME>>]
    /\ LastRow.conflicts_eq[<<"t2", REF_NAME>>]

\* C6: in the row, the conflict count of a source is -1 exactly when its
\* file is missing, and otherwise the number of opening-marker lines of
\* the file, which is >= 0.
C6_ConflictCount ==
    RowWritten =>
        /\ DOMAIN LastRow.conflicts = SourceSet
        /\ \A s \in SourceSet :
              /\ (LastRow.conflicts[s] = -1) = ~ValidSource(s)
              /\ ValidSource(s) =>
                    LET lines == splitlines(source_file(viz, s).text)
                    IN  /\ LastRow.conflicts[s]
                              = Cardinality(OpensUpTo(lines, Len(lines)))
                        /\ LastRow.conflicts[s] >= 0

\* C6's case: a row with an invalid source, a valid one without conflicts
\* and a valid one with a conflict.
C6_Witness ==
    /\ RowWritten
    /\ ~ValidSource("t1")
    /\ LastRow.conflicts["t1"] = -1
    /\ ValidSource("t2")
    /\ LastRow.conflicts["t2"] = 0
    /\ ValidSource(REF_NAME)
    /\ LastRow.conflicts[REF_NAME] = 1

\* C7 as stated: for every valid source, whatever its file holds, the
\* block list is as long as the conflict count.
C7_BlocksEqualCount ==
    RowWritten =>
        \A s \in SourceSet :
            ValidSource(s) =>
                Len(all_results[s].conflict_blocks) = all_results[s].conflicts

\* C7 as amended: for every valid source the block list is at most as long
\* as the conflict count, and as long exactly when every opening marker of
\* the file is closed before the next opening marker and the end of file.
C7_BlocksAtMostCount ==
    RowWritten =>
        \A s \in SourceSet :
            ValidSource(s) =>
                /\ Len(all_results[s].conflict_blocks) <= all_results[s].conflicts
                /\ (Len(all_results[s].conflict_blocks) = all_results[s].conflicts)
                       = Balanced(splitlines(source_file(viz, s).text))

\* C7's case: a valid source whose file ends inside a conflict: counted
\* once, no block.
C7_Witness ==
    /\ RowWritten
    /\ ValidSource("t1")
    /\ ~Balanced(splitlines(source_file(viz, "t1").text))
    /\ all_results["t1"].conflicts = 1
    /\ all_results["t1"].conflict_blocks = <<>>

\* ------------------------------------------------------------------------
\* Claims about whole runs
\* ------------------------------------------------------------------------

\* The scenarios of a sequence of names whose base, left and right resolve.
RECURSIVE Resolvable(_)
Resolvable(keys) ==
    IF keys = <<>> THEN <<>>
    ELSE LET sc == ws.scen[Head(keys)]
         IN  (IF sc.base /\ sc.left /\ sc.right THEN <<Head(keys)>> ELSE <<>>)
                 \o Resolvable(Tail(keys))

\* C8: when the run has ended, the table holds exactly one row for each
\* scenario of the working set whose base, left and right resolve, in
\* processing order, and none for any other: also when every tool failed
\* all trials, when the child file is absent, and when the file name has
\* no extension.
C8_OneRowPerScenario ==
    pc = "done" =>
        [k \in 1..Len(table) |-> <<table[k].project, table[k].commit>>]
            = Resolvable(ProcessingOrder(ws))

\* C9: a tool whose template names a placeholder that format is not given
\* does not end the run: its trials count as failed (timing -1) and the run
\* goes on.
C9_BadTemplateIsLocal ==
    /\ pc /= "crashed"
    /\ Benchmarked /\ ~(tools[ti - 1].template \subseteq Placeholders) =>
           times[tools[ti - 1].name] = -1

\* ------------------------------------------------------------------------
\* Claims about the sampler
\* ------------------------------------------------------------------------

\* Run r has drawn and copied its scenarios.
Sampled(r) ==
    /\ sampler[r].pc \in {"returned", "running"}
    /\ sampler[r].result
    /\ sampler[r].num_to_run >= 0

\* C10: two sampler runs given the same explicit seed, the same n and the
\* same available scenarios select the same scenarios in the same order,
\* whatever order the directory listings came in.
C10_SamplerDeterminism ==
    (/\ inputs.seed.kind = "int"
     /\ \A r \in Runs : Sampled(r) /\ sampler[r].experiment_seed = inputs.seed.val
     /\ sampler[1].num_to_run = sampler[2].num_to_run
     /\ {sampler[1].all_available_scenarios[k] :
            k \in 1..Len(sampler[1].all_available_scenarios)}
        = {sampler[2].all_available_scenarios[k] :
            k \in 1..Len(sampler[2].all_available_scenarios)})
        => sampler[1].selected_scenarios = sampler[2].selected_scenarios

\* The run r of the sampler has returned to main and main has not gone on.
SamplerReturned(r) == sampler[r].pc = "returned"

\* A confirmed sampling with n >= 0: a dataset was chosen, a number n >= 0
\* was typed and the user confirmed.
ConfirmedSampling ==
    /\ inputs.chosen
    /\ inputs.number.ok
    /\ inputs.number.val >= 0
    /\ inputs.confirm = "y"

C12_SamplerFrame ==
    \A r \in Runs :
        /\ (SamplerReturned(r) /\ ~ConfirmedSampling) =>
               /\ ws = sampler[r].before
               /\ sampler[r].result =
                      (/\ inputs.chosen
                       /\ inputs.number.ok
                       /\ inputs.number.val = -1
                       /\ inputs.confirm = "y")
        /\ sampler[r].pc = "stopped" => ~sampler[r].result
        /\ sampler[r].pc = "running" => sampler[r].result

\* C12 witness: -1 was typed and confirmed over a dataset with scenarios,
\* the sampler has returned success, and the working set holds a scenario
\* and stray entries.
C12_Witness ==
    \E r \in Runs :
        /\ SamplerReturned(r)
        /\ inputs.chosen
        /\ inputs.number.ok
        /\ inputs.number.val = -1
        /\ inputs.confirm = "y"
        /\ sampler[r].result
        /\ DOMAIN inputs.dataset /= {}
        /\ DOMAIN ws.scen /= {}
        /\ ws.junk /= {}

\* C12 witness of the refusals: the user did not confirm a number n >= 0
\* and the run was stopped with the working set still holding its entries.
C12_WitnessUnconfirmed ==
    \E r \in Runs :
        /\ sampler[r].pc = "stopped"
        /\ inputs.chosen
        /\ inputs.number.ok
        /\ inputs.number.val >= 0
        /\ inputs.confirm = "n"
        /\ ws.junk /= {}

\* The verdict of the last call of run_tool that returned: success exactly
\* when the binary exists, the command was launched and exited 0 or 1, and
\* the output file is there after the call; elapsed time -1 exactly on
\* failure.
RunToolVerdict ==
    LET t == last_trial.tool
        o == last_trial.o
        r == last_trial.result
    IN  /\ r.success = (/\ t.binary
                        /\ o.launched
                        /\ o.returncode \in {0, 1}
                        /\ r.out.exists)
        /\ ~r.success => r.execution_time = -1
        /\ r.success => r.execution_time /= -1

\* C13: a call of run_tool never raises; it returns success = true iff the
\* binary exists, the process was launched, its exit code is 0 or 1 and the
\* output file exists after the call; in every other case it returns
\* success = false with elapsed time -1, and a successful call never
\* returns elapsed time -1.
C13_RunToolVerdict ==
    last_trial.made => (~last_trial.result.raised /\ RunToolVerdict)

\* The tool's trials on the scenario are over and at least one succeeded.
SucceededTools ==
    {t \in DOMAIN times : times[t] /= -1}

\* C14: when the row of a scenario is written, the file parsed for a tool
\* with at least one successful trial is the file its last successful trial
\* wrote.
C14_LastSuccessfulOutput ==
    RowWritten =>
        \A t \in SucceededTools :
            /\ t \in DOMAIN last_success_out
            /\ last_success_out[t].exists
            /\ viz.out[t] = last_success_out[t]
            /\ LET r == count_and_extract_conflicts(last_success_out[t])
               IN  /\ all_results[t].valid
                   /\ all_results[t].conflicts = r.conflicts
                   /\ all_results[t].content = r.content
                   /\ all_results[t].conflict_blocks = r.conflict_blocks

====
